---- MODULE Spec2Model ----
(***************************************************************************)
(* Model of pyxem/signals/indexation_results.py: the per-pixel reducer     *)
(* crystal_from_vector_matching, the template-matching selector            *)
(* _get_best_match, GenericMatchingResults.to_crystal_map and the          *)
(* VectorMatchingResults object (to_crystal_map,                           *)
(* get_indexed_diffraction_vectors).                                       *)
(*                                                                         *)
(* total_error values are non-negative numbers; the model draws them from  *)
(* 0..MaxErr and keeps every quotient as an exact fraction [num, den].     *)
(* A division whose divisor is 0 raises ZeroDivisionError, as Python's     *)
(* float division does.                                                    *)
(***************************************************************************)
EXTENDS Integers, Sequences, FiniteSets, TLC

VARIABLES z_matches, reduced,
          hkls, vectors, data, target_hkls, warnings, returned, map_calls, vm_xmap,
          tm_data, xmap,
          z, z_best

vars == <<z_matches, reduced, hkls, vectors, data, target_hkls, warnings,
          returned, map_calls, vm_xmap, tm_data, xmap, z, z_best>>

reduceVars == <<z_matches, reduced>>
vmVars == <<hkls, vectors, data, target_hkls, warnings, returned, map_calls, vm_xmap>>
tmVars == <<tm_data, xmap>>
bestVars == <<z, z_best>>

\* ------------------------------------------------------------------ bounds

MaxLen == 4        \* candidates in one MatchSet
MaxPhase == 1      \* phase_index ranges over 0..MaxPhase
MaxErr == 2        \* total_error ranges over 0..MaxErr
MaxCalls == 3      \* calls made on one VectorMatchingResults object
MaxW == 2          \* scan width
MaxH == 2          \* scan height
MaxN == 2          \* matches per pixel of a template-matching array

\* ------------------------------------------------------------------ values

None == "None"

Identity3 == <<<<1, 0, 0>>, <<0, 1, 0>>, <<0, 0, 1>>>>
RotX90 == <<<<1, 0, 0>>, <<0, 0, -1>>, <<0, 1, 0>>>>
Rotations == {Identity3, RotX90}

\* np.rad2deg(mat2euler(M, "rzxz")) on the two matrices the model uses
Mat2EulerDeg(M) == IF M = RotX90 THEN <<0, 90, 0>> ELSE <<0, 0, 0>>

\* an OrientationResult as the reducer reads it
Candidates ==
    [phase_index : 0..MaxPhase, rotation_matrix : Rotations, match_rate : {1},
     error_hkls : {<<0>>}, total_error : 0..MaxErr]

\* sorted by total_error (ascending) within each phase
SortedWithinPhase(items) ==
    \A i, j \in 1..Len(items) :
        (i < j /\ items[i].phase_index = items[j].phase_index)
            => items[i].total_error <= items[j].total_error

MatchSeqs ==
    {items \in UNION {[1..n -> Candidates] : n \in 1..MaxLen} : SortedWithinPhase(items)}

\* a numpy object array: a 1-D array of candidates ("array"), a shape (1,)
\* array holding such an array ("nested"); "record" is a single candidate
MatchSets == [kind : {"array", "nested"}, items : MatchSeqs]

\* ------------------------------------------------------------------ helpers

\* sorted(seq, key=attrgetter("total_error"), reverse=False): stable
SortPos(seq, i) ==
    Cardinality({j \in 1..Len(seq) :
        \/ seq[j].total_error < seq[i].total_error
        \/ (seq[j].total_error = seq[i].total_error /\ j < i)}) + 1

Sorted(seq) ==
    [r \in 1..Len(seq) |-> seq[CHOOSE i \in 1..Len(seq) : SortPos(seq, i) = r]]

\* [m for m in seq if pred(m)], order kept
RECURSIVE SelectPhase(_, _, _)
SelectPhase(seq, p, same) ==
    IF seq = <<>> THEN <<>>
    ELSE LET rest == SelectPhase(Tail(seq), p, same)
         IN IF (Head(seq).phase_index = p) = same THEN <<Head(seq)>> \o rest ELSE rest

Shape(zm) == IF zm.kind = "nested" THEN <<1>> ELSE <<Len(zm.items)>>

\* z_matches[0] of a shape (1,) array
Unwrap(zm) ==
    IF Shape(zm) = <<1>>
    THEN [kind |-> IF zm.kind = "nested" THEN "array" ELSE "record", items |-> zm.items]
    ELSE zm

\* pyxem.utils.indexation_utils.get_nth_best_solution(zm, "vector", rank,
\* key="total_error", descending=False)
GetNthBestSolution(zm, rank) ==
    IF zm.kind = "record" THEN [err |-> "AttributeError", val |-> <<>>]
    ELSE IF rank + 1 > Len(zm.items) THEN [err |-> "IndexError", val |-> <<>>]
    ELSE [err |-> "", val |-> <<Sorted(zm.items)[rank + 1]>>]

\* exact quotient a / b, b # 0
Div(a, b) == [num |-> a, den |-> b]
OneMinus(f) == [num |-> f.den - f.num, den |-> f.den]
Times(k, f) == [num |-> k * f.num, den |-> f.den]

\* the guard left out: the second-best error is the denominator as it is
OrDefaultUnguarded(x) == x

\* x or 1.0
OrDefault(x) == IF x = 0 THEN 1 ELSE x

\* the quotient taken the wrong way round
ReliabilitySwapped(best, second) == Times(100, OneMinus(Div(second, best)))

\* 100 * (1 - best / second)
Reliability(best, second) == Times(100, OneMinus(Div(best, second)))


\* ------------------------------------------------------------------ crystal_from_vector_matching

NoReduction ==
    [status |-> "none", results_array |-> <<>>, best_match |-> <<>>,
     second_best_phase |-> <<>>, second_match |-> <<>>]

\* an exception leaves the function: nothing is returned
Raised(e, best, sbp, sm) ==
    [status |-> e, results_array |-> <<>>, best_match |-> best,
     second_best_phase |-> sbp, second_match |-> sm]

\* metrics["match_rate"], metrics["ehkls"], metrics["total_error"]
BaseMetrics(best) ==
    ("match_rate" :> best.match_rate) @@ ("ehkls" :> best.error_hkls)
        @@ ("total_error" :> best.total_error)

\* the phase filter left out: every candidate counts as another phase's
OtherPhaseMatchesUnfiltered(zm, best) == zm.items

\* other_phase_matches
OtherPhaseMatches(zm, best) == SelectPhase(zm.items, best.phase_index, FALSE)

\* second_best_phase, when other_phase_matches is not empty
SecondBestPhase(others) == IF others # <<>> THEN <<Sorted(others)[1]>> ELSE <<>>

\* the global rank-1 candidate taken whatever its phase
SecondMatchGlobal(zm, best, others) == GetNthBestSolution(zm, 1)

\* second_match: rank 1 of the best phase's own candidates when another phase
\* is present, rank 1 of the whole MatchSet otherwise
SecondMatch(zm, best, others) ==
    IF others # <<>>
    THEN LET same == SelectPhase(zm.items, best.phase_index, TRUE)
         IN IF Len(same) < 2 THEN [err |-> "IndexError", val |-> <<>>]
            ELSE [err |-> "", val |-> <<Sorted(same)[2]>>]
    ELSE GetNthBestSolution(zm, 1)

\* the metrics dict once both second-best references are known
Metrics(best, sbp, second) ==
    BaseMetrics(best)
        @@ (IF sbp # <<>>
            THEN "phase_reliability" :> Reliability(best.total_error, sbp[1].total_error)
            ELSE <<>>)
        @@ ("orientation_reliability" :>
                Reliability(best.total_error, OrDefault(second.total_error)))

CrystalFromVectorMatching(z0) ==
    LET zm == Unwrap(z0)
        b == GetNthBestSolution(zm, 0)
    IN IF b.err # "" THEN Raised(b.err, <<>>, <<>>, <<>>)
       ELSE
         LET best == b.val[1]
             others == OtherPhaseMatches(zm, best)
             sbp == SecondBestPhase(others)
         IN IF sbp # <<>> /\ sbp[1].total_error = 0
            THEN Raised("ZeroDivisionError", b.val, sbp, <<>>)
            ELSE
              LET sm == SecondMatch(zm, best, others)
              IN IF sm.err # "" THEN Raised(sm.err, b.val, sbp, <<>>)
                 ELSE IF OrDefault(sm.val[1].total_error) = 0
                 THEN Raised("ZeroDivisionError", b.val, sbp, sm.val)
                 ELSE [status |-> "ok",
                       results_array |->
                           <<best.phase_index, Mat2EulerDeg(best.rotation_matrix),
                             Metrics(best, sbp, sm.val[1])>>,
                       best_match |-> b.val,
                       second_best_phase |-> sbp,
                       second_match |-> sm.val]

\* ------------------------------------------------------------------ _get_best_match

\* the last index of the maximum instead of the first
ArgMaxLast(row) ==
    (CHOOSE i \in 1..Len(row) :
        /\ \A j \in 1..Len(row) : row[j] <= row[i]
        /\ \A j \in (i + 1)..Len(row) : row[j] < row[i]) - 1

\* np.argmax(row): the first index of the maximum (0-based)
ArgMax(row) ==
    (CHOOSE i \in 1..Len(row) :
        /\ \A j \in 1..Len(row) : row[j] <= row[i]
        /\ \A j \in 1..(i - 1) : row[j] < row[i]) - 1

\* z[:, k] for a 0-based k
Column(zz, k) == [r \in 1..Len(zz) |-> zz[r][k + 1]]

\* z[:, np.argmax(z[-1, :])]
GetBestMatch(zz) == Column(zz, ArgMax(zz[Len(zz)]))

\* ------------------------------------------------------------------ GenericMatchingResults.to_crystal_map

\* ndarray.flatten() of a 2-D array: the rows one after the other
RECURSIVE Flatten(_)
Flatten(grid) == IF grid = <<>> THEN <<>> ELSE Head(grid) \o Flatten(Tail(grid))

\* np.indices((h, w)): grid 1 holds the row index, grid 2 the column index
Indices(shape) ==
    <<[r \in 1..shape[1] |-> [c \in 1..shape[2] |-> r - 1]],
      [r \in 1..shape[1] |-> [c \in 1..shape[2] |-> c - 1]]>>

\* self.data.map(_get_best_match, inplace=False)
MapBestMatch(d) ==
    [shape |-> <<d.shape[1], d.shape[2], 5>>,
     px |-> [r \in 1..d.shape[1] |-> [c \in 1..d.shape[2] |-> GetBestMatch(d.px[r][c])]]]

\* _s.isig[k].data.flatten()
ISigFlat(s, k) ==
    Flatten([r \in 1..s.shape[1] |-> [c \in 1..s.shape[2] |-> s.px[r][c][k + 1]]])

\* the row grid taken for x
NavXFromRows(s) == Flatten(Indices(<<s.shape[1], s.shape[2]>>)[1])

\* xy[1].flatten()
NavX(s) == Flatten(Indices(<<s.shape[1], s.shape[2]>>)[2])

\* xy[0].flatten()
NavY(s) == Flatten(Indices(<<s.shape[1], s.shape[2]>>)[1])

\* np.vstack((alpha, beta, gamma)).T
VStackT(a, b, g) == [i \in 1..Len(a) |-> <<a[i], b[i], g[i]>>]

\* orix Rotation.from_euler(euler, convention="bunge", direction="crystal2lab")
FromEuler(euler) == [euler |-> euler, convention |-> "bunge", direction |-> "crystal2lab"]

ToCrystalMap(d) ==
    LET s == MapBestMatch(d)
    IN [rotations |-> FromEuler(VStackT(ISigFlat(s, 1), ISigFlat(s, 2), ISigFlat(s, 3))),
        phase_id |-> ISigFlat(s, 0),
        x |-> NavX(s),
        y |-> NavY(s),
        prop |-> [score |-> ISigFlat(s, 4)]]


\* ------------------------------------------------------------------ inputs

\* scores in hundredths; angles in degrees
ScoreVals == {80, 95}
AlphaVals == {10, 20}
BetaVals == {5, 15}
GammaVals == {1, 2}

\* arrays of shape (5, n): rows phase, alpha, beta, gamma, score
TemplateArrays ==
    UNION {{<<p, a, b, g, sc>> :
                p \in [1..n -> 0..MaxPhase], a \in [1..n -> AlphaVals],
                b \in [1..n -> BetaVals], g \in [1..n -> GammaVals],
                sc \in [1..n -> ScoreVals]} : n \in 1..MaxN}

\* the pixels of a scan handed to to_crystal_map: column c is phase
\* (c - 1) mod the number of phases with angles (10c, 5c, c); scores vary
ScanPixels(n) ==
    {<<[c \in 1..n |-> (c - 1) % (MaxPhase + 1)], [c \in 1..n |-> 10 * c],
       [c \in 1..n |-> 5 * c], [c \in 1..n |-> c], sc>> : sc \in [1..n -> ScoreVals]}

\* data of shape (h, w, 5, n)
ScanData ==
    UNION {{[shape |-> <<h, w>>, px |-> p] : p \in [1..h -> [1..w -> ScanPixels(n)]]} :
                h \in 1..MaxH, w \in 1..MaxW, n \in 1..MaxN}

HklValues == {"hklsA", "hklsB"}
Overwrites == {"True", "False", "1"}

\* the data of a VectorMatchingResults signal: one MatchSet of one candidate
VectorData == {<<ms>> : ms \in {m \in MatchSets : m.kind = "array" /\ Len(m.items) = 1}}

NoCall == [n |-> 0, op |-> "", overwrite |-> "", raised |-> "", message |-> "", value |-> None]

\* ------------------------------------------------------------------ initial states

ReduceIdle == z_matches = [kind |-> "array", items |-> <<>>] /\ reduced = NoReduction

\* VectorMatchingResults.__init__
VectorMatchingResultsInit ==
    /\ vectors = None
    /\ hkls = None
    /\ warnings = 0
    /\ returned = NoCall
    /\ map_calls = 0
    /\ vm_xmap = <<>>

VectorIdle == VectorMatchingResultsInit /\ data = <<>> /\ target_hkls = None

TemplateIdle == tm_data = [shape |-> <<0, 0>>, px |-> <<>>] /\ xmap = <<>>

BestIdle == z = <<>> /\ z_best = <<>>

\* a VectorMatchingResults object and a DiffractionVectors object to index
Init ==
    /\ VectorMatchingResultsInit
    /\ data \in VectorData
    /\ target_hkls \in {None} \cup HklValues
    /\ ReduceIdle /\ TemplateIdle /\ BestIdle

InitReduce ==
    /\ z_matches \in MatchSets
    /\ reduced = NoReduction
    /\ VectorIdle /\ TemplateIdle /\ BestIdle

\* GenericMatchingResults.__init__
InitMap ==
    /\ tm_data \in ScanData
    /\ xmap = <<>>
    /\ ReduceIdle /\ VectorIdle /\ BestIdle

InitBest ==
    /\ z \in TemplateArrays
    /\ z_best = <<>>
    /\ ReduceIdle /\ VectorIdle /\ TemplateIdle

\* ------------------------------------------------------------------ actions

crystal_from_vector_matching ==
    /\ reduced.status = "none"
    /\ reduced' = CrystalFromVectorMatching(z_matches)
    /\ UNCHANGED <<z_matches, vmVars, tmVars, bestVars>>

get_best_match ==
    /\ z_best = <<>>
    /\ z_best' = GetBestMatch(z)
    /\ UNCHANGED <<z, reduceVars, vmVars, tmVars>>

GenericMatchingResults_to_crystal_map ==
    /\ xmap = <<>>
    /\ xmap' = <<ToCrystalMap(tm_data)>>
    /\ UNCHANGED <<tm_data, reduceVars, vmVars, bestVars>>

\* the indexer assigns the hkls attribute of the results object
set_hkls(h) ==
    /\ hkls' = h
    /\ UNCHANGED <<vectors, data, target_hkls, warnings, returned, map_calls, vm_xmap,
                   reduceVars, tmVars, bestVars>>

\* the early raise left out: the reduction below it runs
VectorMatchingResults_to_crystal_map_reduces ==
    /\ returned.n < MaxCalls
    /\ map_calls' = map_calls + Len(data)
    /\ vm_xmap' = <<"CrystalMap">>
    /\ returned' = [n |-> returned.n + 1, op |-> "to_crystal_map", overwrite |-> "",
                    raised |-> "", message |-> "", value |-> "CrystalMap"]
    /\ UNCHANGED <<hkls, vectors, data, target_hkls, warnings,
                   reduceVars, tmVars, bestVars>>

VectorMatchingResults_to_crystal_map ==
    /\ returned.n < MaxCalls
    /\ returned' = [n |-> returned.n + 1, op |-> "to_crystal_map", overwrite |-> "",
                    raised |-> "ValueError", message |-> "Currently under development",
                    value |-> None]
    /\ UNCHANGED <<hkls, vectors, data, target_hkls, warnings, map_calls, vm_xmap,
                   reduceVars, tmVars, bestVars>>

\* the overwrite flag ignored: the hkls are always assigned
get_indexed_diffraction_vectors_always(overwrite) ==
    /\ returned.n < MaxCalls
    /\ target_hkls' = hkls
    /\ warnings' = warnings
    /\ returned' = [n |-> returned.n + 1, op |-> "get_indexed_diffraction_vectors",
                    overwrite |-> overwrite, raised |-> "", message |-> "",
                    value |-> "vectors"]
    /\ UNCHANGED <<hkls, vectors, data, map_calls, vm_xmap, reduceVars, tmVars, bestVars>>

get_indexed_diffraction_vectors(overwrite) ==
    /\ returned.n < MaxCalls
    /\ IF overwrite = "False"
       THEN IF target_hkls # None
            THEN warnings' = warnings + 1 /\ target_hkls' = target_hkls
            ELSE target_hkls' = hkls /\ warnings' = warnings
       ELSE IF overwrite = "True"
            THEN target_hkls' = hkls /\ warnings' = warnings
            ELSE UNCHANGED <<target_hkls, warnings>>
    /\ returned' = [n |-> returned.n + 1, op |-> "get_indexed_diffraction_vectors",
                    overwrite |-> overwrite, raised |-> "", message |-> "",
                    value |-> "vectors"]
    /\ UNCHANGED <<hkls, vectors, data, map_calls, vm_xmap, reduceVars, tmVars, bestVars>>

Next ==
    \/ \E h \in HklValues : set_hkls(h)
    \/ VectorMatchingResults_to_crystal_map
    \/ \E overwrite \in Overwrites : get_indexed_diffraction_vectors(overwrite)

NextReduce == crystal_from_vector_matching

NextMap == GenericMatchingResults_to_crystal_map

NextBest == get_best_match

Spec == Init /\ [][Next]_vars
SpecReduce == InitReduce /\ [][NextReduce]_vars
SpecMap == InitMap /\ [][NextMap]_vars
SpecBest == InitBest /\ [][NextBest]_vars


\* ------------------------------------------------------------------ properties

Returned == reduced.status = "ok"
Called == reduced.status # "none"
Items == z_matches.items
PhaseOut == reduced.results_array[1]
MetricsOut == reduced.results_array[3]
PhasesPresent == {Items[i].phase_index : i \in 1..Len(Items)}

\* the least total_error among the candidates of the phases in P
MinErrorIn(P) ==
    CHOOSE e \in 0..MaxErr :
        /\ \E i \in 1..Len(Items) : Items[i].phase_index \in P /\ Items[i].total_error = e
        /\ \A i \in 1..Len(Items) : Items[i].phase_index \in P => e <= Items[i].total_error

\* the first candidate, in input order, of globally minimal total_error
BestIndex ==
    CHOOSE i \in 1..Len(Items) :
        /\ \A j \in 1..Len(Items) : Items[i].total_error <= Items[j].total_error
        /\ \A j \in 1..(i - 1) : Items[i].total_error < Items[j].total_error

\* the total_error of the globally second-best candidate (at least two candidates)
GlobalSecondError ==
    CHOOSE e \in 0..MaxErr :
        \E i \in (1..Len(Items)) \ {BestIndex} :
            /\ Items[i].total_error = e
            /\ \A j \in (1..Len(Items)) \ {BestIndex} : e <= Items[j].total_error

BestPhaseCount ==
    Cardinality({i \in 1..Len(Items) : Items[i].phase_index = Items[BestIndex].phase_index})

\* f = 100 * (1 - b / d) as exact fractions
IsReliability(f, b, d) == f.den # 0 /\ d # 0 /\ f.num * d = 100 * (d - b) * f.den

InPercentRange(f) == f.den > 0 /\ 0 <= f.num /\ f.num <= 100 * f.den

\* C1: VectorMatchingResults.to_crystal_map always raises ValueError("Currently
\* under development"); no per-pixel reduction runs, no CrystalMap is produced
\* and data, vectors and hkls are unchanged.
C1_ToCrystalMapRaises ==
    [][(returned'.n = returned.n + 1 /\ returned'.op = "to_crystal_map")
        => /\ returned'.raised = "ValueError"
           /\ returned'.message = "Currently under development"
           /\ returned'.value = None
           /\ map_calls' = map_calls
           /\ vm_xmap' = vm_xmap
           /\ data' = data /\ vectors' = vectors /\ hkls' = hkls]_vars

C1_Witness ==
    /\ returned.op = "to_crystal_map"
    /\ returned.raised = "ValueError"
    /\ hkls # None

\* C2: when the best phase contributes only one candidate (other candidates
\* being present), crystal_from_vector_matching returns and
\* orientation_reliability is computed from the globally second-best candidate.
\* Stated for MatchSets whose errors are all positive, where no quotient of
\* the reducer has a zero divisor.
C2_GlobalFallback ==
    (/\ Called /\ Len(Items) >= 2 /\ BestPhaseCount = 1
     /\ \A i \in 1..Len(Items) : Items[i].total_error > 0)
        => /\ Returned
           /\ IsReliability(MetricsOut["orientation_reliability"],
                            Items[BestIndex].total_error, OrDefault(GlobalSecondError))

\* C3: on return, phase_reliability is 100*(1 - best.total_error/m.total_error)
\* for m the least-error candidate of another phase when two phases are
\* present, and the key is absent when only one phase is present.
C3_PhaseReliability ==
    Returned =>
        IF Cardinality(PhasesPresent) >= 2
        THEN /\ "phase_reliability" \in DOMAIN MetricsOut
             /\ IsReliability(MetricsOut["phase_reliability"], MetricsOut["total_error"],
                              MinErrorIn(PhasesPresent \ {PhaseOut}))
        ELSE "phase_reliability" \notin DOMAIN MetricsOut

C3_Witness ==
    /\ Returned
    /\ Cardinality(PhasesPresent) >= 2
    /\ MetricsOut["total_error"] > 0
    /\ MinErrorIn(PhasesPresent \ {PhaseOut}) > MetricsOut["total_error"]

C3_WitnessOnePhase ==
    /\ Returned
    /\ Cardinality(PhasesPresent) = 1

\* C4: a MatchSet of exactly one candidate is reduced without failure to that
\* candidate's phase and orientation, with neither reliability key in metrics.
C4_SingleCandidate ==
    (Called /\ Len(Items) = 1)
        => /\ Returned
           /\ PhaseOut = Items[1].phase_index
           /\ reduced.results_array[2] = Mat2EulerDeg(Items[1].rotation_matrix)
           /\ "phase_reliability" \notin DOMAIN MetricsOut
           /\ "orientation_reliability" \notin DOMAIN MetricsOut

\* C5: once the second-best reference is selected, no division by zero
\* occurs: a total_error of 0 is replaced by the denominator 1, a nonzero
\* total_error is the denominator itself.
C5_ZeroDivisionGuard ==
    reduced.second_match # <<>> =>
        /\ Returned
        /\ LET s == reduced.second_match[1].total_error
               b == reduced.best_match[1].total_error
           IN IsReliability(MetricsOut["orientation_reliability"], b,
                            IF s = 0 THEN 1 ELSE s)

C5_Witness ==
    /\ Returned
    /\ reduced.second_match[1].total_error = 0
    /\ MetricsOut["orientation_reliability"].num = 100 * MetricsOut["orientation_reliability"].den

C5_WitnessNonzero ==
    /\ Returned
    /\ reduced.second_match[1].total_error > reduced.best_match[1].total_error
    /\ reduced.best_match[1].total_error > 0

\* C6: get_indexed_diffraction_vectors never raises and returns the vectors
\* object; overwrite=False on assigned hkls leaves them and warns,
\* overwrite=True assigns the result's hkls, overwrite=False on None assigns
\* them; the result's own hkls never change.
C6_IndexedVectors ==
    [][(returned'.n = returned.n + 1 /\ returned'.op = "get_indexed_diffraction_vectors")
        => /\ hkls' = hkls
           /\ returned'.raised = ""
           /\ returned'.value = "vectors"
           /\ (returned'.overwrite = "False" /\ target_hkls # None)
                => (target_hkls' = target_hkls /\ warnings' = warnings + 1)
           /\ (returned'.overwrite = "True")
                => (target_hkls' = hkls /\ warnings' = warnings)
           /\ (returned'.overwrite = "False" /\ target_hkls = None)
                => (target_hkls' = hkls /\ warnings' = warnings)]_vars

C6_Witness ==
    /\ returned.op = "get_indexed_diffraction_vectors"
    /\ returned.overwrite = "False"
    /\ warnings > 0
    /\ hkls # None
    /\ target_hkls # None
    /\ target_hkls # hkls

C6_WitnessOverwrite ==
    /\ returned.op = "get_indexed_diffraction_vectors"
    /\ returned.overwrite = "True"
    /\ warnings > 0
    /\ target_hkls = hkls
    /\ hkls # None

\* C7: the x and y arrays of the crystal map have length W*H, and at the
\* flattened index y*W + x they hold x and y.
C7_Coordinates ==
    xmap # <<>> =>
        LET H == tm_data.shape[1]
            W == tm_data.shape[2]
        IN /\ Len(xmap[1].x) = W * H
           /\ Len(xmap[1].y) = W * H
           /\ \A x \in 0..(W - 1), y \in 0..(H - 1) :
                /\ xmap[1].x[y * W + x + 1] = x
                /\ xmap[1].y[y * W + x + 1] = y

C7_Witness ==
    /\ xmap # <<>>
    /\ tm_data.shape = <<MaxH, MaxW>>
    /\ xmap[1].x[MaxW * MaxH] = MaxW - 1
    /\ xmap[1].y[MaxW * MaxH] = MaxH - 1

\* C8: _get_best_match returns the whole column at the lowest index of the
\* maximum of the score row; scores [0.8, 0.95] select column index 1.
C8_BestColumn ==
    z_best # <<>> =>
        /\ \E k \in 1..Len(z[5]) :
            /\ \A j \in 1..Len(z[5]) : z[5][j] <= z[5][k]
            /\ \A j \in 1..(k - 1) : z[5][j] < z[5][k]
            /\ z_best = <<z[1][k], z[2][k], z[3][k], z[4][k], z[5][k]>>
        /\ (z = <<<<0, 1>>, <<10, 20>>, <<5, 15>>, <<1, 2>>, <<80, 95>>>>
                => z_best = <<1, 20, 15, 2, 95>>)

C8_Witness ==
    /\ z_best # <<>>
    /\ Len(z[5]) >= 2
    /\ z[5][1] = z[5][2]
    /\ z[1][1] # z[1][2]
    /\ z_best[1] = z[1][1]

C8_WitnessScenario ==
    /\ z = <<<<0, 1>>, <<10, 20>>, <<5, 15>>, <<1, 2>>, <<80, 95>>>>
    /\ z_best = <<1, 20, 15, 2, 95>>

\* C9: on return, the second-best reference of orientation_reliability has
\* the best match's phase, so it is never the other-phase candidate used for
\* phase_reliability.
C9_SecondMatchSamePhase ==
    Returned =>
        /\ reduced.second_match[1].phase_index = reduced.best_match[1].phase_index
        /\ reduced.second_match[1].phase_index = PhaseOut
        /\ reduced.second_best_phase # <<>>
            => reduced.second_best_phase[1] # reduced.second_match[1]

C9_Witness ==
    /\ Returned
    /\ reduced.second_best_phase # <<>>
    /\ reduced.second_best_phase[1].total_error < reduced.second_match[1].total_error

\* C10: on return, orientation_reliability lies in [0, 100] and is 100 when
\* the second-best error is 0; phase_reliability, when present, lies in
\* [0, 100].
C10_Ranges ==
    Returned =>
        /\ InPercentRange(MetricsOut["orientation_reliability"])
        /\ reduced.second_match[1].total_error = 0
            => MetricsOut["orientation_reliability"].num
                 = 100 * MetricsOut["orientation_reliability"].den
        /\ "phase_reliability" \in DOMAIN MetricsOut
            => /\ MinErrorIn(PhasesPresent \ {PhaseOut}) > 0
               /\ InPercentRange(MetricsOut["phase_reliability"])

C10_Witness ==
    /\ Returned
    /\ "phase_reliability" \in DOMAIN MetricsOut
    /\ MetricsOut["phase_reliability"].num > 0
    /\ MetricsOut["phase_reliability"].num < 100 * MetricsOut["phase_reliability"].den
    /\ MetricsOut["orientation_reliability"].num > 0
    /\ MetricsOut["orientation_reliability"].num < 100 * MetricsOut["orientation_reliability"].den

====
